---------------------------- MODULE Spec2Model ----------------------------
(***************************************************************************)
(* Model of the bank-branches GraphQL API: the cursor codec, the storage   *)
(* queries of the repository layer and the paginated list operations of    *)
(* the service layer (app/services/branch_service.py, app/repo/            *)
(* repository.py, app/routes/views.py).                                    *)
(*                                                                         *)
(* Text is a sequence of one-character strings; a byte string is a         *)
(* sequence of integers 0..255.                                            *)
(***************************************************************************)
EXTENDS Integers, Sequences, FiniteSets, TLC

---------------------------------------------------------------------------
(* Characters                                                              *)

\* The printable ASCII characters, code 32 first (code 96 is spelled out:
\* the lexer does not take a backquote inside a string).
Ascii ==
  << " ", "!", "\"", "#", "$", "%", "&", "'", "(", ")", "*", "+", ",", "-", ".", "/",
     "0", "1", "2", "3", "4", "5", "6", "7", "8", "9", ":", ";", "<", "=", ">", "?",
     "@", "A", "B", "C", "D", "E", "F", "G", "H", "I", "J", "K", "L", "M", "N", "O",
     "P", "Q", "R", "S", "T", "U", "V", "W", "X", "Y", "Z", "[", "\\", "]", "^", "_",
     "grave", "a", "b", "c", "d", "e", "f", "g", "h", "i", "j", "k", "l", "m", "n", "o",
     "p", "q", "r", "s", "t", "u", "v", "w", "x", "y", "z", "{", "|", "}", "~" >>

\* The byte each character is stored as.
OrdTable ==
  [c \in { Ascii[i] : i \in 1..Len(Ascii) } |->
     31 + (CHOOSE i \in 1..Len(Ascii) : Ascii[i] = c)]

Ord(c) == OrdTable[c]

\* The base64 alphabet of base64.b64encode / b64decode, value 0 first.
B64Alphabet ==
  << "A", "B", "C", "D", "E", "F", "G", "H", "I", "J", "K", "L", "M", "N", "O", "P",
     "Q", "R", "S", "T", "U", "V", "W", "X", "Y", "Z", "a", "b", "c", "d", "e", "f",
     "g", "h", "i", "j", "k", "l", "m", "n", "o", "p", "q", "r", "s", "t", "u", "v",
     "w", "x", "y", "z", "0", "1", "2", "3", "4", "5", "6", "7", "8", "9", "+", "/" >>

B64Char(v) == B64Alphabet[v + 1]

\* The value of each character of the alphabet (binascii's table_a2b_base64).
B64Table ==
  [c \in { B64Alphabet[i] : i \in 1..64 } |->
     (CHOOSE i \in 1..64 : B64Alphabet[i] = c) - 1]

IsB64Char(c) == c \in DOMAIN B64Table

B64Value(c) == B64Table[c]

---------------------------------------------------------------------------
(* Cursor encoding: base64.b64encode(str(n).encode()).decode()             *)

RECURSIVE DecimalDigits(_)
\* The decimal digits of n >= 0 as bytes, most significant first.
DecimalDigits(n) ==
  IF n < 10 THEN << 48 + n >>
  ELSE Append(DecimalDigits(n \div 10), 48 + (n % 10))

\* str(n).encode(): "-" (byte 45) and the digits for a negative n.
StrBytes(n) == IF n < 0 THEN << 45 >> \o DecimalDigits(0 - n) ELSE DecimalDigits(n)

RECURSIVE B64Encode(_)
\* base64.b64encode(bs).decode(): three bytes to four characters, "=" padded.
B64Encode(bs) ==
  IF Len(bs) = 0 THEN << >>
  ELSE IF Len(bs) = 1 THEN
    << B64Char(bs[1] \div 4), B64Char((bs[1] % 4) * 16), "=", "=" >>
  ELSE IF Len(bs) = 2 THEN
    << B64Char(bs[1] \div 4),
       B64Char((bs[1] % 4) * 16 + bs[2] \div 16),
       B64Char((bs[2] % 16) * 4), "=" >>
  ELSE
    << B64Char(bs[1] \div 4),
       B64Char((bs[1] % 4) * 16 + bs[2] \div 16),
       B64Char((bs[2] % 16) * 4 + bs[3] \div 64),
       B64Char(bs[3] % 64) >> \o B64Encode(SubSeq(bs, 4, Len(bs)))

\* Fault: the cursor is minted without its "=" padding.
EncodeCursorUnpadded(n) == SelectSeq(B64Encode(StrBytes(n)), LAMBDA c : c # "=")

\* The cursor minted for absolute position n.
EncodeCursor(n) == B64Encode(StrBytes(n))

---------------------------------------------------------------------------
(* Cursor decoding: int(base64.b64decode(after).decode())                  *)

RECURSIVE A2bBase64(_, _, _, _, _)
\* binascii.a2b_base64 in its default, non-strict mode, which b64decode calls
\* with validate=False: characters outside the alphabet are skipped, a pad
\* sequence that completes a quad ends the input, and data left in an
\* unfinished quad is an error ("Incorrect padding").
\*   s: the characters left, quad_pos: 0..3, leftchar: bits carried,
\*   pads: consecutive "=" seen, out: bytes decoded so far.
A2bBase64(s, quad_pos, leftchar, pads, out) ==
  IF Len(s) = 0 THEN [ok |-> quad_pos = 0, bytes |-> out]
  ELSE
    LET c    == Head(s)
        rest == Tail(s)
    IN  IF c = "=" THEN
          IF quad_pos >= 2 /\ quad_pos + pads + 1 >= 4
          THEN [ok |-> TRUE, bytes |-> out]
          ELSE A2bBase64(rest, quad_pos, leftchar,
                         IF quad_pos >= 2 THEN pads + 1 ELSE pads, out)
        ELSE IF ~IsB64Char(c) THEN A2bBase64(rest, quad_pos, leftchar, pads, out)
        ELSE
          LET v == B64Value(c)
          IN  CASE quad_pos = 0 -> A2bBase64(rest, 1, v, 0, out)
                [] quad_pos = 1 ->
                     A2bBase64(rest, 2, v % 16, 0, Append(out, leftchar * 4 + v \div 16))
                [] quad_pos = 2 ->
                     A2bBase64(rest, 3, v % 4, 0, Append(out, leftchar * 16 + v \div 4))
                [] OTHER ->
                     A2bBase64(rest, 0, 0, 0, Append(out, leftchar * 64 + v))

\* base64.b64decode(after): [ok, bytes]; ok is FALSE where it raises binascii.Error.
B64Decode(s) == A2bBase64(s, 0, 0, 0, << >>)

\* The bytes int() strips from both ends (str.isspace over ASCII).
IsSpace(b) == b \in (9..13) \cup (28..32)

IsDigit(b) == b \in 48..57

RECURSIVE LStrip(_)
LStrip(bs) == IF Len(bs) > 0 /\ IsSpace(Head(bs)) THEN LStrip(Tail(bs)) ELSE bs

RECURSIVE RStrip(_)
RStrip(bs) ==
  IF Len(bs) > 0 /\ IsSpace(bs[Len(bs)]) THEN RStrip(SubSeq(bs, 1, Len(bs) - 1)) ELSE bs

RECURSIVE DigitsValue(_, _)
\* The value of a digit string that may hold single underscores between digits.
DigitsValue(bs, acc) ==
  IF Len(bs) = 0 THEN acc
  ELSE IF Head(bs) = 95 THEN DigitsValue(Tail(bs), acc)
  ELSE DigitsValue(Tail(bs), acc * 10 + (Head(bs) - 48))

\* int() accepts: digits, with "_" only between two digits.
ValidDigits(bs) ==
  /\ Len(bs) > 0
  /\ \A i \in 1..Len(bs) :
       \/ IsDigit(bs[i])
       \/ /\ bs[i] = 95
          /\ i > 1 /\ i < Len(bs)
          /\ IsDigit(bs[i - 1]) /\ IsDigit(bs[i + 1])

\* int(text) for text decoded from the bytes bs: [ok, value]; ok is FALSE where
\* .decode() raises UnicodeDecodeError or int() raises ValueError.  A byte above
\* 127 is taken as a failure: the inputs of the model hold no well-formed
\* multi-byte UTF-8 sequence.
ParseInt(bs) ==
  LET t    == RStrip(LStrip(bs))
      neg  == Len(t) > 0 /\ Head(t) = 45
      sign == Len(t) > 0 /\ Head(t) \in {43, 45}
      ds   == IF sign THEN Tail(t) ELSE t
  IN  IF (\E i \in 1..Len(bs) : bs[i] > 127) \/ ~ValidDigits(ds)
      THEN [ok |-> FALSE, value |-> 0]
      ELSE [ok |-> TRUE,
            value |-> IF neg THEN 0 - DigitsValue(ds, 0) ELSE DigitsValue(ds, 0)]

\* int(base64.b64decode(after).decode()): [ok, value]; ok is FALSE where the
\* expression raises.
DecodeCursor(s) ==
  LET raw == B64Decode(s)
  IN  IF raw.ok THEN ParseInt(raw.bytes) ELSE [ok |-> FALSE, value |-> 0]

---------------------------------------------------------------------------
(* Optional values (Python's None or a value)                              *)

None == << >>

Some(v) == << v >>

\* Python truthiness of an Optional[str]: present and not the empty string.
Truthy(opt) == opt # None /\ Len(opt[1]) > 0

Min(a, b) == IF a < b THEN a ELSE b

Max(a, b) == IF a > b THEN a ELSE b

---------------------------------------------------------------------------
(* The database, as init_db.py loads it from the CSV: banks(id, name),     *)
(* branches(ifsc, branch, address, city, district, state, bank_id)         *)

\* The largest number of CSV rows loaded.
MaxCsvRows == 6

\* The CSV rows the database is loaded from, in file order.
CsvRows ==
  << [ifsc |-> << "B", "2" >>, branch |-> << "F", "o", "r", "t" >>,
      address |-> << "1", " ", "R", "d" >>, city |-> << "P", "u", "n", "e" >>,
      district |-> << "P", "u", "n", "e" >>, state |-> << "M", "H" >>,
      bank_name |-> Some(<< "A", "l", "p", "h", "a" >>)],
     [ifsc |-> << "A", "1" >>, branch |-> << "M", "a", "i", "n" >>,
      address |-> << "2", " ", "R", "d" >>, city |-> << "A", "g", "r", "a" >>,
      district |-> << "A", "g", "r", "a" >>, state |-> << "U", "P" >>,
      bank_name |-> Some(<< "B", "e", "t", "a" >>)],
     [ifsc |-> << "C", "3" >>, branch |-> << "F", "o", "r", "t" >>,
      address |-> << "3", " ", "R", "d" >>, city |-> << "P", "u", "n", "e" >>,
      district |-> << "A", "g", "r", "a" >>, state |-> << "U", "P" >>,
      bank_name |-> Some(<< "G", "a", "m", "m", "a" >>)],
     [ifsc |-> << "D", "4" >>, branch |-> << "M", "a", "i", "n" >>,
      address |-> << "4", " ", "R", "d" >>, city |-> << "A", "g", "r", "a" >>,
      district |-> << "P", "u", "n", "e" >>, state |-> << "M", "H" >>,
      bank_name |-> Some(<< "A", "x", "i", "s" >>)],
     [ifsc |-> << "E", "5" >>, branch |-> << "E", "a", "s", "t" >>,
      address |-> << "5", " ", "R", "d" >>, city |-> << "P", "u", "n", "e" >>,
      district |-> << "P", "u", "n", "e" >>, state |-> << "M", "H" >>,
      bank_name |-> Some(<< "D", "e", "l", "t", "a" >>)],
     [ifsc |-> << "a", "6" >>, branch |-> << "W", "e", "s", "t" >>,
      address |-> << "6", " ", "R", "d" >>, city |-> << "p", "u", "n", "e" >>,
      district |-> << "P", "u", "n", "e" >>, state |-> << "m", "h" >>,
      bank_name |-> Some(<< "A", "l", "p", "h", "a" >>)],
     [ifsc |-> << "F", "7" >>, branch |-> << "E", "a", "s", "t" >>,
      address |-> << "7", " ", "R", "d" >>, city |-> << "A", "g", "r", "a" >>,
      district |-> << "A", "g", "r", "a" >>, state |-> << "U", "P" >>,
      bank_name |-> Some(<< "B", "e", "t", "a" >>)] >>

\* A CSV row with no bank name: its branch is stored with bank_id NULL
\* (bank_map.get finds no id; the column is nullable, so the row is kept).
CsvRowWithoutBank ==
  [ifsc |-> << "A", "0" >>, branch |-> << "M", "a", "i", "n" >>,
   address |-> << "0", " ", "R", "d" >>, city |-> << "P", "u", "n", "e" >>,
   district |-> << "P", "u", "n", "e" >>, state |-> << "M", "H" >>,
   bank_name |-> None]

\* The CSV file: the first n rows, and the row without a bank name last when
\* the file holds one.
CsvFile(n, withoutBank) ==
  SubSeq(CsvRows, 1, Min(n, Len(CsvRows)))
    \o (IF withoutBank THEN << CsvRowWithoutBank >> ELSE << >>)

RECURSIVE UniqueBanks(_, _)
\* df['bank_name'].unique() for the rows that name a bank: the names in order
\* of first appearance (the missing name is refused by name NOT NULL).
UniqueBanks(csv, seen) ==
  IF Len(csv) = 0 THEN seen
  ELSE LET nm == Head(csv).bank_name
       IN  IF nm = None \/ (\E i \in 1..Len(seen) : seen[i] = nm[1])
           THEN UniqueBanks(Tail(csv), seen)
           ELSE UniqueBanks(Tail(csv), Append(seen, nm[1]))

\* Table banks after create_database: id INTEGER PRIMARY KEY AUTOINCREMENT
\* numbers the inserted names from 1.
LoadedBanks(csv) ==
  LET names == UniqueBanks(csv, << >>)
  IN  { [id |-> i, name |-> names[i]] : i \in 1..Len(names) }

\* bank_map.get(row['bank_name']): the bank's id, or None.
BankIdOf(bankTable, nm) ==
  IF nm # None /\ (\E ba \in bankTable : ba.name = nm[1])
  THEN Some((CHOOSE ba \in bankTable : ba.name = nm[1]).id)
  ELSE None

\* Table branches after create_database.
LoadedBranches(csv) ==
  { [ifsc |-> csv[i].ifsc, branch |-> csv[i].branch, address |-> csv[i].address,
     city |-> csv[i].city, district |-> csv[i].district, state |-> csv[i].state,
     bank_id |-> BankIdOf(LoadedBanks(csv), csv[i].bank_name)] : i \in 1..Len(csv) }

---------------------------------------------------------------------------
(* SQL as SQLite evaluates it                                              *)

RECURSIVE TextLess(_, _)
\* a < b under the BINARY collation: byte by byte, a proper prefix first.
TextLess(a, b) ==
  IF Len(b) = 0 THEN FALSE
  ELSE IF Len(a) = 0 THEN TRUE
  ELSE IF Head(a) # Head(b) THEN Ord(Head(a)) < Ord(Head(b))
  ELSE TextLess(Tail(a), Tail(b))

\* LIKE compares ASCII letters without regard to case.
Fold(c) == IF Ord(c) \in 65..90 THEN Ascii[Ord(c) + 32 - 31] ELSE c

RECURSIVE LikeMatch(_, _)
\* text LIKE pat: "%" matches any run of characters, "_" any one character.
LikeMatch(pat, text) ==
  IF Len(pat) = 0 THEN Len(text) = 0
  ELSE IF Head(pat) = "%" THEN
    \/ LikeMatch(Tail(pat), text)
    \/ Len(text) > 0 /\ LikeMatch(pat, Tail(text))
  ELSE
    /\ Len(text) > 0
    /\ Head(pat) = "_" \/ Fold(Head(pat)) = Fold(Head(text))
    /\ LikeMatch(Tail(pat), Tail(text))

\* LIMIT limit OFFSET offset over an ordered result: a negative LIMIT is no
\* limit, a negative OFFSET is OFFSET 0.
LimitOffset(rows, limit, offset) ==
  LET from == Min(Max(offset, 0), Len(rows))
      left == Len(rows) - from
      n    == IF limit < 0 THEN left ELSE Min(limit, left)
  IN  SubSeq(rows, from + 1, from + n)

RECURSIVE OrderByName(_)
\* ORDER BY name over rows of banks (name is UNIQUE).
OrderByName(rows) ==
  IF rows = {} THEN << >>
  ELSE LET m == CHOOSE r \in rows : \A q \in rows \ {r} : TextLess(r.name, q.name)
       IN  << m >> \o OrderByName(rows \ {m})

RECURSIVE OrderByIfsc(_)
\* ORDER BY b.ifsc over joined branch rows (ifsc is the primary key).
OrderByIfsc(rows) ==
  IF rows = {} THEN << >>
  ELSE LET m == CHOOSE r \in rows : \A q \in rows \ {r} : TextLess(r.ifsc, q.ifsc)
       IN  << m >> \o OrderByIfsc(rows \ {m})

\* FROM branches b JOIN banks ba ON b.bank_id = ba.id, with the selected
\* columns: a branch whose bank_id is NULL or matches no bank yields no row.
JoinedBranches(bankTable, branchTable) ==
  { [ifsc |-> b.ifsc, branch |-> b.branch, address |-> b.address, city |-> b.city,
     district |-> b.district, state |-> b.state, bank_id |-> ba.id,
     bank_name |-> ba.name] :
      <<b, ba>> \in { p \in branchTable \X bankTable :
                        p[1].bank_id # None /\ p[1].bank_id[1] = p[2].id } }

---------------------------------------------------------------------------
(* State                                                                   *)

VARIABLES
  banks,     \* table banks: a set of rows [id, name]
  branches,  \* table branches: a set of rows, bank_id an Optional id
  settings,  \* the Settings instance: [MAX_PAGE_SIZE]
  history,   \* the exchanges [request, response] of the client's session
  codec,     \* a position run through the cursor codec: [n, cursor, decoded]
  requests,  \* the units of work, by slot: the request, its position and locals
  connections, \* the open sqlite3 connections: [owner, call]
  compiled   \* a call of search_branches: its arguments and the two queries

vars == << banks, branches, settings, history, codec, requests, connections,
          compiled >>

---------------------------------------------------------------------------
(* Repository layer (app/repo/repository.py)                               *)

\* BankRepository.get_all_banks: SELECT id, name FROM banks ORDER BY name
\* LIMIT ? OFFSET ?
BankRepo_get_all_banks(limit, offset) ==
  LimitOffset(OrderByName(banks), limit, offset)

\* BankRepository.count_banks: SELECT COUNT(*) FROM banks
count_banks == Cardinality(banks)

\* BranchRepository.get_all_branches: branches joined to banks, ORDER BY
\* b.ifsc LIMIT ? OFFSET ?
BranchRepo_get_all_branches(limit, offset) ==
  LimitOffset(OrderByIfsc(JoinedBranches(banks, branches)), limit, offset)

\* BranchRepository.count_branches: SELECT COUNT(*) FROM branches (no join).
count_branches == Cardinality(branches)

\* One entry of conditions / params: the column, and the pattern %value%.
Condition(column, value) ==
  IF Truthy(value)
  THEN << [column |-> column, param |-> << "%" >> \o value[1] \o << "%" >>] >>
  ELSE << >>

\* The conditions and params lists search_branches builds, in its order.
SearchConditions(f) ==
  Condition("b.ifsc", f.ifsc) \o Condition("b.city", f.city)
    \o Condition("b.district", f.district) \o Condition("b.state", f.state)
    \o Condition("ba.name", f.bank_name) \o Condition("b.branch", f.branch_name)

\* The value of a column of the joined row.
ColumnValue(row, column) ==
  CASE column = "b.ifsc"     -> row.ifsc
    [] column = "b.city"     -> row.city
    [] column = "b.district" -> row.district
    [] column = "b.state"    -> row.state
    [] column = "ba.name"    -> row.bank_name
    [] column = "b.branch"   -> row.branch

\* Fault: the conditions joined by OR.
WhereClauseAny(columns, params, row) ==
  \E k \in 1..Len(columns) : LikeMatch(params[k], ColumnValue(row, columns[k]))

\* WHERE where_clause: the conditions joined by AND with the k-th parameter
\* bound to the k-th placeholder, or 1=1 when there is no condition.
WhereClause(columns, params, row) ==
  \A k \in 1..Len(columns) : LikeMatch(params[k], ColumnValue(row, columns[k]))

\* Fault: the pagination parameters appended as offset, limit.
DataParamsOffsetFirst(params, limit, offset) == params \o << offset, limit >>

\* data_params = params + [limit, offset]
DataParams(params, limit, offset) == params \o << limit, offset >>

\* The text of one condition, "column LIKE ?", as its tokens.
ConditionText(column) == << column, "LIKE", "?" >>

\* where_clause = " AND ".join(conditions) if conditions else "1=1"
RECURSIVE JoinAnd(_)
JoinAnd(columns) ==
  IF Len(columns) = 0 THEN << >>
  ELSE IF Len(columns) = 1 THEN ConditionText(columns[1])
  ELSE ConditionText(columns[1]) \o << "AND" >> \o JoinAnd(Tail(columns))

where_clause(columns) ==
  IF Len(columns) > 0 THEN JoinAnd(columns) ELSE << "1=1" >>

\* count_query and data_query with the parameter tuples search_branches
\* hands to execute_one and execute_query: the text from WHERE on, as tokens.
SearchQueries(f, limit, offset) ==
  LET conds   == SearchConditions(f)
      columns == [k \in 1..Len(conds) |-> conds[k].column]
      params  == [k \in 1..Len(conds) |-> conds[k].param]
  IN  [count_query |-> [text |-> << "WHERE" >> \o where_clause(columns),
                        params |-> params],
       data_query  |-> [text |-> << "WHERE" >> \o where_clause(columns)
                                   \o << "ORDER BY", "b.ifsc",
                                         "LIMIT", "?", "OFFSET", "?" >>,
                        params |-> DataParams(params, limit, offset)]]

\* BranchRepository.search_branches: the count query and the data query over
\* the same join and where clause; the data query takes params + [limit, offset].
search_branches(f, limit, offset) ==
  LET conds       == SearchConditions(f)
      columns     == [k \in 1..Len(conds) |-> conds[k].column]
      params      == [k \in 1..Len(conds) |-> conds[k].param]
      data_params == DataParams(params, limit, offset)
      matching    == { r \in JoinedBranches(banks, branches) :
                         WhereClause(columns, params, r) }
      np          == Len(params)
  IN  [total_count |-> Cardinality(matching),
       rows |-> LimitOffset(
                  OrderByIfsc({ r \in JoinedBranches(banks, branches) :
                                  WhereClause(columns, SubSeq(data_params, 1, np), r) }),
                  data_params[np + 1], data_params[np + 2])]

---------------------------------------------------------------------------
(* Service layer (app/services/branch_service.py)                          *)

\* Fault: the page starts at the cursor's own position, not after it.
CursorOffsetAtCursor(after) ==
  IF Truthy(after)
  THEN LET d == DecodeCursor(after[1]) IN IF d.ok THEN d.value ELSE 0
  ELSE 0

\* The offset a list operation starts at: 0 without a cursor, the decoded
\* integer + 1 with one, 0 when decoding raises.
CursorOffset(after) ==
  IF Truthy(after)
  THEN LET d == DecodeCursor(after[1]) IN IF d.ok THEN d.value + 1 ELSE 0
  ELSE 0

\* limit = min(first, settings.MAX_PAGE_SIZE)
PageLimit(first) == Min(first, settings.MAX_PAGE_SIZE)

\* Fault: a full page is taken to have a page after it.
HasNextPageOfFullPage(rows, limit) == Len(rows) >= limit

\* has_next_page = len(rows) > limit
HasNextPage(rows, limit) == Len(rows) > limit

\* Python's rows[:limit]: the first limit rows, or all but the last -limit.
Slice(rows, limit) ==
  IF limit >= 0 THEN SubSeq(rows, 1, Min(limit, Len(rows)))
  ELSE SubSeq(rows, 1, Max(Len(rows) + limit, 0))

\* Fault: the lookahead row stays among the rows of the page.
KeptRowsWithLookahead(rows, limit) == rows

\* The rows kept for the edges: the fetched rows without the lookahead row.
KeptRows(rows, limit) == IF HasNextPage(rows, limit) THEN Slice(rows, limit) ELSE rows

\* Fault: the cursor is minted from the local index alone.
EdgeCursorOfIndex(offset, idx) == EncodeCursor(idx)

\* cursor = base64.b64encode(str(offset + idx).encode()).decode(), idx from 0
EdgeCursor(offset, idx) == EncodeCursor(offset + idx)

\* Fault: the flag is taken from the decoded value, not from the offset.
HasPreviousPageOfDecoded(offset) == offset - 1 > 0

\* has_previous_page = offset > 0
HasPreviousPage(offset) == offset > 0

BankType(row) == [id |-> row.id, name |-> row.name]

BranchType(row) ==
  [ifsc |-> row.ifsc, branch |-> row.branch, address |-> row.address,
   city |-> row.city, district |-> row.district, state |-> row.state,
   bank |-> [id |-> row.bank_id, name |-> row.bank_name]]

\* PageInfo and the connection built from the edges.
Connection(edges, has_next_page, offset, total_count) ==
  [edges |-> edges,
   page_info |->
     [has_next_page |-> has_next_page,
      has_previous_page |-> HasPreviousPage(offset),
      start_cursor |-> IF Len(edges) > 0 THEN Some(edges[1].cursor) ELSE None,
      end_cursor |-> IF Len(edges) > 0 THEN Some(edges[Len(edges)].cursor) ELSE None],
   total_count |-> total_count]

\* BankService.get_all_banks(first, after)
BankService_get_all_banks(first, after) ==
  LET offset    == CursorOffset(after)
      limit     == PageLimit(first)
      fetched   == BankRepo_get_all_banks(limit + 1, offset)
      bank_rows == KeptRows(fetched, limit)
      edges     == [i \in 1..Len(bank_rows) |->
                      [node |-> BankType(bank_rows[i]), cursor |-> EdgeCursor(offset, i - 1)]]
  IN  Connection(edges, HasNextPage(fetched, limit), offset, count_banks)

\* filter_input and any([...]): some field is present and not empty.
HasFilter(filter_input) ==
  /\ filter_input # None
  /\ \/ Truthy(filter_input[1].ifsc)     \/ Truthy(filter_input[1].city)
     \/ Truthy(filter_input[1].district) \/ Truthy(filter_input[1].state)
     \/ Truthy(filter_input[1].bank_name) \/ Truthy(filter_input[1].branch_name)

\* The rows and the count get_all_branches takes from the repository: from
\* search_branches with a filter, from get_all_branches and count_branches
\* without.
BranchQuery(filter_input, limit, offset) ==
  IF HasFilter(filter_input)
  THEN search_branches(filter_input[1], limit, offset)
  ELSE [rows |-> BranchRepo_get_all_branches(limit, offset),
        total_count |-> count_branches]

\* BranchService.get_all_branches(first, after, filter_input)
BranchService_get_all_branches(first, after, filter_input) ==
  LET offset      == CursorOffset(after)
      limit       == PageLimit(first)
      got         == BranchQuery(filter_input, limit + 1, offset)
      branch_rows == KeptRows(got.rows, limit)
      edges       == [i \in 1..Len(branch_rows) |->
                        [node |-> BranchType(branch_rows[i]),
                         cursor |-> EdgeCursor(offset, i - 1)]]
  IN  Connection(edges, HasNextPage(got.rows, limit), offset, got.total_count)

---------------------------------------------------------------------------
(* Configuration (app/core/config.py)                                      *)

\* Settings.DEFAULT_PAGE_SIZE
DEFAULT_PAGE_SIZE == 20

\* Settings.MAX_PAGE_SIZE as the class sets it
MAX_PAGE_SIZE == 100

\* A MAX_PAGE_SIZE given by the environment or .env, which Settings reads
\* before the class value.
EnvMaxPageSize == 2

---------------------------------------------------------------------------
(* Requests                                                                *)

\* first ranges over -MaxNegFirst .. MaxFirst.
MaxFirst == 3

MaxNegFirst == 2

\* Cursors of the positions 0 .. MaxCursor are sent as `after`.
MaxCursor == 2

\* Cursors that encode -1 .. -MaxNegCursor are sent as `after`.
MaxNegCursor == 2

\* The longest session: a first page and the pages that follow it.
MaxPages == 2

FirstInputs == (0 - MaxNegFirst)..MaxFirst

\* `after` strings no cursor of the service looks like.
\* "abc": incorrect padding (binascii.Error); "!!!!": no data, int("") raises
\* ValueError; "YWJj": the text abc (ValueError); "////": the bytes FF FF FF
\* (UnicodeDecodeError).
MalformedCursors ==
  { << "a", "b", "c" >>, << "!", "!", "!", "!" >>,
    << "Y", "W", "J", "j" >>, << "/", "/", "/", "/" >> }

\* `after` strings the service never mints, yet decodes to an integer:
\* "M!A==" (MA== with a character outside the alphabet: 0), "KzE=" (the
\* text +1).
LenientCursors ==
  { << "M", "!", "A", "=", "=" >>, << "K", "z", "E", "=" >> }

AfterInputs ==
  {None, Some(<< >>)}
    \cup { Some(EncodeCursor(n)) : n \in (0 - MaxNegCursor)..MaxCursor }
    \cup { Some(c) : c \in MalformedCursors \cup LenientCursors }

\* BranchFilterInput with every field absent.
EmptyFilter ==
  [ifsc |-> None, city |-> None, district |-> None, state |-> None,
   bank_name |-> None, branch_name |-> None]

FilterInputs ==
  { None,
    Some(EmptyFilter),
    Some([ifsc |-> Some(<< >>), city |-> Some(<< >>), district |-> Some(<< >>),
          state |-> Some(<< >>), bank_name |-> Some(<< >>),
          branch_name |-> Some(<< >>)]),
    Some([EmptyFilter EXCEPT !.city = Some(<< "P", "u", "n", "e" >>)]),
    Some([EmptyFilter EXCEPT !.state = Some(<< "M", "H" >>)]),
    Some([EmptyFilter EXCEPT !.city = Some(<< "P", "u", "n", "e" >>),
                             !.state = Some(<< "M", "H" >>)]),
    Some([EmptyFilter EXCEPT !.bank_name = Some(<< "A", "l", "p", "h", "a" >>)]),
    Some([EmptyFilter EXCEPT !.city = Some(<< "P", "_", "n", "e" >>)]) }

\* search_branches has not been called.
IdleCompiler ==
  [f |-> EmptyFilter, limit |-> 0, offset |-> 0, queries |-> None, result |-> None]

---------------------------------------------------------------------------
(* Point lookups of the repository (app/repo/repository.py)                *)

\* fetchone() over a set of rows with at most one element.
FetchOne(rows) == IF rows = {} THEN None ELSE Some(CHOOSE r \in rows : TRUE)

\* BankRepository.get_bank_by_id: SELECT id, name FROM banks WHERE id = ?
BankRepo_get_bank_by_id(bank_id) == FetchOne({ b \in banks : b.id = bank_id })

\* BankRepository.get_bank_by_name: SELECT id, name FROM banks WHERE name = ?
BankRepo_get_bank_by_name(name) == FetchOne({ b \in banks : b.name = name })

\* BranchRepository.get_branch_by_ifsc: the joined row WHERE b.ifsc = ?
BranchRepo_get_branch_by_ifsc(ifsc) ==
  FetchOne({ r \in JoinedBranches(banks, branches) : r.ifsc = ifsc })

---------------------------------------------------------------------------
(* Requests served step by step through the storage executor               *)
(* (app/core/database.py): every repository call is one execute_query or   *)
(* execute_one, which opens a connection, runs the statement, commits and  *)
(* closes                                                                  *)

\* The units of work that may be in flight together.
MaxInFlight == 2

Slots == 1..MaxInFlight

\* The exception sqlite3 raises in the call-th storage call of a request,
\* at the step `at` of the executor.
StorageError(call, at) == [call |-> call, at |-> at]

\* One call of the sqlite3 API, as the executor makes it.
Event(call, api, ok) == [call |-> call, api |-> api, ok |-> ok]

\* A slot no request has been given to.
IdleRequest ==
  [pc |-> "idle",
   request |-> [op |-> "none", first |-> 0, after |-> None, filter |-> None,
                id |-> 0, key |-> << >>],
   locals |-> [offset |-> 0, limit |-> 0],
   call |-> 0,
   fetched |-> << >>,
   log |-> << >>,
   outcome |-> [status |-> "none", value |-> None, error |-> None]]

\* A statement handed to the executor.
Statement(sql, f, limit, offset, id, key) ==
  [sql |-> sql, f |-> f, limit |-> limit, offset |-> offset, id |-> id, key |-> key]

\* cursor.execute(query, params) followed by fetchall() or fetchone(): the
\* rows, the count or the optional row the statement yields.
Fetch(q) ==
  CASE q.sql = "get_all_banks"      -> BankRepo_get_all_banks(q.limit, q.offset)
    [] q.sql = "count_banks"        -> count_banks
    [] q.sql = "get_all_branches"   -> BranchRepo_get_all_branches(q.limit, q.offset)
    [] q.sql = "count_branches"     -> count_branches
    [] q.sql = "search_count"       -> search_branches(q.f, q.limit, q.offset).total_count
    [] q.sql = "search_data"        -> search_branches(q.f, q.limit, q.offset).rows
    [] q.sql = "get_bank_by_id"     -> BankRepo_get_bank_by_id(q.id)
    [] q.sql = "get_bank_by_name"   -> BankRepo_get_bank_by_name(q.key)
    [] q.sql = "get_branch_by_ifsc" -> BranchRepo_get_branch_by_ifsc(q.key)

\* The storage calls an operation makes, in the order it makes them.
StorageCalls(request, locals) ==
  LET limit  == locals.limit + 1
      offset == locals.offset
  IN  CASE request.op = "banks" ->
             << Statement("get_all_banks", EmptyFilter, limit, offset, 0, << >>),
                Statement("count_banks", EmptyFilter, 0, 0, 0, << >>) >>
        [] request.op = "branches" /\ HasFilter(request.filter) ->
             << Statement("search_count", request.filter[1], limit, offset, 0, << >>),
                Statement("search_data", request.filter[1], limit, offset, 0, << >>) >>
        [] request.op = "branches" /\ ~HasFilter(request.filter) ->
             << Statement("get_all_branches", EmptyFilter, limit, offset, 0, << >>),
                Statement("count_branches", EmptyFilter, 0, 0, 0, << >>) >>
        [] request.op = "bank" ->
             << Statement("get_bank_by_id", EmptyFilter, 0, 0, request.id, << >>) >>
        [] request.op = "bank_by_name" ->
             << Statement("get_bank_by_name", EmptyFilter, 0, 0, 0, request.key) >>
        [] request.op = "branch" ->
             << Statement("get_branch_by_ifsc", EmptyFilter, 0, 0, 0, request.key) >>

\* The connection a list operation builds from the rows it fetched (the
\* lookahead row included) and the count.
PageOf(op, locals, rows, total_count) ==
  LET kept  == KeptRows(rows, locals.limit)
      edges == [i \in 1..Len(kept) |->
                  [node |-> IF op = "banks" THEN BankType(kept[i]) ELSE BranchType(kept[i]),
                   cursor |-> EdgeCursor(locals.offset, i - 1)]]
  IN  Connection(edges, HasNextPage(rows, locals.limit), locals.offset, total_count)

\* What an operation returns once its storage calls have returned `fetched`.
ServiceResult(request, locals, fetched) ==
  CASE request.op = "banks" -> Some(PageOf("banks", locals, fetched[1], fetched[2]))
    [] request.op = "branches" /\ HasFilter(request.filter) ->
         Some(PageOf("branches", locals, fetched[2], fetched[1]))
    [] request.op = "branches" /\ ~HasFilter(request.filter) ->
         Some(PageOf("branches", locals, fetched[1], fetched[2]))
    [] request.op = "bank" ->
         IF fetched[1] # None THEN Some(BankType(fetched[1][1])) ELSE None
    [] request.op = "bank_by_name" -> fetched[1]
    [] request.op = "branch" ->
         IF fetched[1] # None THEN Some(BranchType(fetched[1][1])) ELSE None

\* offset and limit as the list operations compute them on entry.
EntryLocals(request) ==
  IF request.op \in {"banks", "branches"}
  THEN [offset |-> CursorOffset(request.after), limit |-> PageLimit(request.first)]
  ELSE [offset |-> 0, limit |-> 0]

\* Fault: a failed storage call is answered with an absent result.
AbsentOnFailure(r, error) ==
  [r EXCEPT !.pc = "returned",
            !.outcome = [status |-> "returned", value |-> None, error |-> None]]

\* except Exception as e: log_error(...); raise -- in the executor, the
\* repository and the service: the operation ends with the same exception.
RaiseOnFailure(r, error) ==
  [r EXCEPT !.pc = "raised",
            !.outcome = [status |-> "raised", value |-> None, error |-> Some(error)]]

---------------------------------------------------------------------------
(* Operations (app/routes/views.py)                                        *)

\* Query.banks and Query.branches hand the request to the service.
Resolve(request) ==
  IF request.op = "banks"
  THEN BankService_get_all_banks(request.first, request.after)
  ELSE BranchService_get_all_branches(request.first, request.after, request.filter)

Exchange(request) == [request |-> request, response |-> Resolve(request)]

\* No position has been encoded.
IdleCodec == [n |-> 0, cursor |-> None, decoded |-> None]

Init ==
  /\ \E n \in 0..MaxCsvRows, withoutBank \in BOOLEAN :
       /\ banks = LoadedBanks(CsvFile(n, withoutBank))
       /\ branches = LoadedBranches(CsvFile(n, withoutBank))
  /\ settings \in { [MAX_PAGE_SIZE |-> m] : m \in {MAX_PAGE_SIZE, EnvMaxPageSize} }
  /\ history = << >>
  /\ codec = IdleCodec
  /\ requests = [s \in Slots |-> IdleRequest]
  /\ connections = {}
  /\ compiled = IdleCompiler

\* query { banks(first, after) }: the first request of a session.
Banks(first, after) ==
  /\ history = << >>
  /\ history' = << Exchange([op |-> "banks", first |-> first, after |-> after,
                             filter |-> None]) >>
  /\ UNCHANGED << banks, branches, settings, codec, requests, connections, compiled >>

\* query { branches(first, after, filter) }: the first request of a session.
Branches(first, after, filter) ==
  /\ history = << >>
  /\ history' = << Exchange([op |-> "branches", first |-> first, after |-> after,
                             filter |-> filter]) >>
  /\ UNCHANGED << banks, branches, settings, codec, requests, connections, compiled >>

\* The client asks for the page after the one it holds: the same query with
\* after = the page's end_cursor.
NextPage ==
  /\ Len(history) > 0
  /\ Len(history) < MaxPages
  /\ LET last == history[Len(history)]
     IN  history' = Append(history,
           Exchange([last.request EXCEPT !.after = last.response.page_info.end_cursor]))
  /\ UNCHANGED << banks, branches, settings, codec, requests, connections, compiled >>

Next ==
  \/ \E first \in FirstInputs, after \in AfterInputs : Banks(first, after)
  \/ \E first \in FirstInputs, after \in AfterInputs, filter \in FilterInputs :
       Branches(first, after, filter)
  \/ NextPage

Spec == Init /\ [][Next]_vars

---------------------------------------------------------------------------
(* The cursor codec on its own: a position is encoded as the service mints *)
(* an edge's cursor, and the cursor is decoded as the service reads after  *)

\* Positions 0 .. MaxCodecInt are encoded: one, two and three digits.
MaxCodecInt == 120

InitCodec ==
  /\ banks = {}
  /\ branches = {}
  /\ settings = [MAX_PAGE_SIZE |-> MAX_PAGE_SIZE]
  /\ history = << >>
  /\ codec = IdleCodec
  /\ requests = [s \in Slots |-> IdleRequest]
  /\ connections = {}
  /\ compiled = IdleCompiler

\* cursor = base64.b64encode(str(n).encode()).decode()
Encode(n) ==
  /\ codec.cursor = None
  /\ codec' = [n |-> n, cursor |-> Some(EncodeCursor(n)), decoded |-> None]
  /\ UNCHANGED << banks, branches, settings, history, requests, connections, compiled >>

\* int(base64.b64decode(after).decode()) on the cursor just minted
Decode ==
  /\ codec.cursor # None
  /\ codec.decoded = None
  /\ codec' = [codec EXCEPT !.decoded = Some(DecodeCursor(codec.cursor[1]))]
  /\ UNCHANGED << banks, branches, settings, history, requests, connections, compiled >>

NextCodec ==
  \/ \E n \in 0..MaxCodecInt : Encode(n)
  \/ Decode

SpecCodec == InitCodec /\ [][NextCodec]_vars

---------------------------------------------------------------------------
(* Requests in flight together: the resolvers called from several units of *)
(* work, each storage call a step of its own                               *)

\* The CSV file of these runs has either MaxExecRows rows or the one row
\* that names no bank.
MaxExecRows == 2

\* Storage calls fail in at most MaxFailures requests of a run.
MaxFailures == 1

\* A request as a resolver receives it.
Request(op, first, after, filter, id, key) ==
  [op |-> op, first |-> first, after |-> after, filter |-> filter, id |-> id, key |-> key]

\* banks(first: 1, after: cursor of position 0), branches(first: 1, filter:
\* {city: "Pune"}), bank(id: 2), the repository's get_bank_by_name("Beta"),
\* branch(ifsc: "A1"), branch(ifsc: "A0"): with the datasets of InitExec each
\* lookup meets a row in some and none in others.
ExecRequests ==
  { Request("banks", 1, Some(EncodeCursor(0)), None, 0, << >>),
    Request("branches", 1, None,
            Some([EmptyFilter EXCEPT !.city = Some(<< "P", "u", "n", "e" >>)]), 0, << >>),
    Request("bank", 0, None, None, 2, << >>),
    Request("bank_by_name", 0, None, None, 0, << "B", "e", "t", "a" >>),
    Request("branch", 0, None, None, 0, << "A", "1" >>),
    Request("branch", 0, None, None, 0, << "A", "0" >>) }

\* The request of the slot is between entry and return.
InFlight(s) == requests[s].pc \in {"connect", "query"}

\* A storage call of the slot may fail.
MayFail(s) ==
  Cardinality({ t \in Slots : requests[t].pc = "raised" }) < MaxFailures

\* Fault: offset and limit are kept on the service singleton, where the
\* request accepted last has written them.
LocalsOfService(s) ==
  LET accepted == { t \in Slots : requests[t].pc # "idle" }
  IN  requests[CHOOSE t \in accepted : \A u \in accepted : u <= t].locals

\* offset and limit are local variables of the call that serves the request.
Locals(s) == requests[s].locals

\* The statement of the storage call the slot is at.
CurrentStatement(s) ==
  StorageCalls(requests[s].request, Locals(s))[requests[s].call]

\* Fault: a lookup that finds no row ends with an exception.
ReturnOrRaiseNotFound(r, value) ==
  IF value = None
  THEN RaiseOnFailure(r, StorageError(r.call, "not found"))
  ELSE [r EXCEPT !.pc = "returned",
                 !.outcome = [status |-> "returned", value |-> value, error |-> None]]

\* The slot's record after its operation returned value.
Return(r, value) ==
  [r EXCEPT !.pc = "returned",
            !.outcome = [status |-> "returned", value |-> value, error |-> None]]

\* The record of slot s becomes r.
SetRequest(s, r) == requests' = [requests EXCEPT ![s] = r]

InitExec ==
  /\ \E csv \in {CsvFile(0, TRUE), CsvFile(MaxExecRows, FALSE)} :
       /\ banks = LoadedBanks(csv)
       /\ branches = LoadedBranches(csv)
  /\ settings = [MAX_PAGE_SIZE |-> MAX_PAGE_SIZE]
  /\ history = << >>
  /\ codec = IdleCodec
  /\ requests = [s \in Slots |-> IdleRequest]
  /\ connections = {}
  /\ compiled = IdleCompiler

\* A resolver hands a request to its service in a unit of work of its own,
\* while the request accepted before it is still in flight; the operation
\* decodes the cursor and bounds the page size.
Accept(s, request) ==
  /\ requests[s].pc = "idle"
  /\ IF s = 1 THEN TRUE ELSE InFlight(s - 1)
  /\ SetRequest(s, [IdleRequest EXCEPT !.pc = "connect", !.request = request,
                                       !.locals = EntryLocals(request), !.call = 1])
  /\ UNCHANGED << banks, branches, settings, history, codec, connections, compiled >>

\* get_connection succeeds: sqlite3.connect, PRAGMA foreign_keys = ON,
\* row_factory; get_session yields the connection.
Connect(s) ==
  /\ requests[s].pc = "connect"
  /\ LET r == requests[s]
         k == r.call
     IN  /\ SetRequest(s, [r EXCEPT !.pc = "query",
                                    !.log = @ \o << Event(k, "connect", TRUE),
                                                    Event(k, "pragma", TRUE) >>])
         /\ connections' = connections \cup { [owner |-> s, call |-> k] }
  /\ UNCHANGED << banks, branches, settings, history, codec, compiled >>

\* sqlite3.connect raises: no connection exists; get_connection logs and
\* re-raises.
ConnectFails(s) ==
  /\ requests[s].pc = "connect"
  /\ MayFail(s)
  /\ LET r == requests[s]
         k == r.call
     IN  SetRequest(s, RaiseOnFailure(
           [r EXCEPT !.log = @ \o << Event(k, "connect", FALSE) >>],
           StorageError(k, "connect")))
  /\ UNCHANGED << banks, branches, settings, history, codec, connections, compiled >>

\* sqlite3.connect returns a connection and the PRAGMA statement raises:
\* get_connection logs and re-raises; nothing closes the connection.
PragmaFails(s) ==
  /\ requests[s].pc = "connect"
  /\ MayFail(s)
  /\ LET r == requests[s]
         k == r.call
     IN  /\ SetRequest(s, RaiseOnFailure(
              [r EXCEPT !.log = @ \o << Event(k, "connect", TRUE),
                                        Event(k, "pragma", FALSE) >>],
              StorageError(k, "pragma")))
         /\ connections' = connections \cup { [owner |-> s, call |-> k] }
  /\ UNCHANGED << banks, branches, settings, history, codec, compiled >>

\* The body of the with block runs and the session ends: execute, fetch,
\* commit, close. The repository hands the result to the service, which makes
\* its next storage call or, after the last one, returns.
RunStatement(s) ==
  /\ requests[s].pc = "query"
  /\ LET r     == requests[s]
         k     == r.call
         got   == Append(r.fetched, Fetch(CurrentStatement(s)))
         calls == StorageCalls(r.request, Locals(s))
         done  == [r EXCEPT !.fetched = got,
                            !.log = @ \o << Event(k, "execute", TRUE),
                                            Event(k, "commit", TRUE),
                                            Event(k, "close", TRUE) >>]
     IN  /\ SetRequest(s, IF k = Len(calls)
                          THEN Return(done, ServiceResult(r.request, Locals(s), got))
                          ELSE [done EXCEPT !.pc = "connect", !.call = k + 1])
         /\ connections' = connections \ { [owner |-> s, call |-> k] }
  /\ UNCHANGED << banks, branches, settings, history, codec, compiled >>

\* cursor.execute or the fetch raises: get_session rolls back, re-raises and
\* closes the connection.
ExecuteFails(s) ==
  /\ requests[s].pc = "query"
  /\ MayFail(s)
  /\ LET r == requests[s]
         k == r.call
     IN  /\ SetRequest(s, RaiseOnFailure(
              [r EXCEPT !.log = @ \o << Event(k, "execute", FALSE),
                                        Event(k, "rollback", TRUE),
                                        Event(k, "close", TRUE) >>],
              StorageError(k, "execute")))
         /\ connections' = connections \ { [owner |-> s, call |-> k] }
  /\ UNCHANGED << banks, branches, settings, history, codec, compiled >>

\* conn.commit() raises after the body ran: get_session rolls back,
\* re-raises and closes the connection; the fetched result is lost.
CommitFails(s) ==
  /\ requests[s].pc = "query"
  /\ MayFail(s)
  /\ LET r == requests[s]
         k == r.call
     IN  /\ SetRequest(s, RaiseOnFailure(
              [r EXCEPT !.log = @ \o << Event(k, "execute", TRUE),
                                        Event(k, "commit", FALSE),
                                        Event(k, "rollback", TRUE),
                                        Event(k, "close", TRUE) >>],
              StorageError(k, "commit")))
         /\ connections' = connections \ { [owner |-> s, call |-> k] }
  /\ UNCHANGED << banks, branches, settings, history, codec, compiled >>

\* A connection nothing refers to any more (its operation has ended) is
\* reclaimed by the runtime at a time of its choosing, which closes it.
Reclaim(c) ==
  /\ c \in connections
  /\ ~InFlight(c.owner)
  /\ connections' = connections \ {c}
  /\ UNCHANGED << banks, branches, settings, history, codec, requests, compiled >>

NextExec ==
  \/ \E s \in Slots, request \in ExecRequests : Accept(s, request)
  \/ \E s \in Slots : Connect(s)
  \/ \E s \in Slots : ConnectFails(s)
  \/ \E s \in Slots : PragmaFails(s)
  \/ \E s \in Slots : RunStatement(s)
  \/ \E s \in Slots : ExecuteFails(s)
  \/ \E s \in Slots : CommitFails(s)
  \/ \E c \in connections : Reclaim(c)

SpecExec == InitExec /\ [][NextExec]_vars

---------------------------------------------------------------------------
(* The filter compiler on its own: search_branches called with every       *)
(* combination of absent, empty and set filter arguments                   *)

\* limit is 1 .. MaxSearchLimit and offset 0 .. MaxSearchOffset.
MaxSearchLimit == 2

MaxSearchOffset == 1

\* The value a field has when it is set: a different one for each field.
SearchValues ==
  [ifsc |-> << "A", "1" >>, city |-> << "P", "u", "n", "e" >>,
   district |-> << "T", "h", "a", "n", "e" >>, state |-> << "M", "H" >>,
   bank_name |-> << "A", "l", "p", "h", "a" >>,
   branch_name |-> << "F", "o", "r", "t" >>]

\* Every argument None, "" or a value, independently.
SearchFilters ==
  [ifsc : {None, Some(<< >>), Some(SearchValues.ifsc)},
   city : {None, Some(<< >>), Some(SearchValues.city)},
   district : {None, Some(<< >>), Some(SearchValues.district)},
   state : {None, Some(<< >>), Some(SearchValues.state)},
   bank_name : {None, Some(<< >>), Some(SearchValues.bank_name)},
   branch_name : {None, Some(<< >>), Some(SearchValues.branch_name)}]

InitCompiler ==
  /\ banks = LoadedBanks(CsvFile(MaxExecRows, FALSE))
  /\ branches = LoadedBranches(CsvFile(MaxExecRows, FALSE))
  /\ settings = [MAX_PAGE_SIZE |-> MAX_PAGE_SIZE]
  /\ history = << >>
  /\ codec = IdleCodec
  /\ requests = [s \in Slots |-> IdleRequest]
  /\ connections = {}
  /\ \E f \in SearchFilters, limit \in 1..MaxSearchLimit, offset \in 0..MaxSearchOffset :
       compiled = [IdleCompiler EXCEPT !.f = f, !.limit = limit, !.offset = offset]

\* BranchRepository.search_branches(ifsc, city, district, state, bank_name,
\* branch_name, limit, offset): the queries it builds and what it returns.
Search ==
  /\ compiled.queries = None
  /\ compiled' = [compiled EXCEPT
       !.queries = Some(SearchQueries(compiled.f, compiled.limit, compiled.offset)),
       !.result  = Some(search_branches(compiled.f, compiled.limit, compiled.offset))]
  /\ UNCHANGED << banks, branches, settings, history, codec, requests, connections >>

NextCompiler == Search

SpecCompiler == InitCompiler /\ [][NextCompiler]_vars

---------------------------------------------------------------------------
(* A client reading a whole list: the first page without a cursor, then    *)
(* the page after each end_cursor for as long as has_next_page is true     *)

\* The client asks for the first page, with a page size of 1 .. MAX_PAGE_SIZE
\* and no cursor.
FirstPage(op, first, filter) ==
  /\ history = << >>
  /\ first <= settings.MAX_PAGE_SIZE
  /\ history' = << Exchange([op |-> op, first |-> first, after |-> None,
                             filter |-> filter]) >>
  /\ UNCHANGED << banks, branches, settings, codec, requests, connections, compiled >>

\* The client holds a page with has_next_page = true and asks for the page
\* after its end_cursor. A client never makes more requests than the table
\* has rows, plus two.
FollowingPage ==
  /\ Len(history) > 0
  /\ Len(history) < MaxCsvRows + 2
  /\ LET last == history[Len(history)]
     IN  /\ last.response.page_info.has_next_page
         /\ history' = Append(history,
               Exchange([last.request EXCEPT !.after = last.response.page_info.end_cursor]))
  /\ UNCHANGED << banks, branches, settings, codec, requests, connections, compiled >>

NextTraversal ==
  \/ \E first \in 1..MaxFirst : FirstPage("banks", first, None)
  \/ \E first \in 1..MaxFirst, filter \in FilterInputs :
       FirstPage("branches", first, filter)
  \/ FollowingPage

SpecTraversal == Init /\ [][NextTraversal]_vars

---------------------------------------------------------------------------
(* What the properties speak of                                            *)

\* The exchanges of the session so far.
Exchanges == { history[i] : i \in 1..Len(history) }

\* A row's field contains the filter value (an absent or empty value puts no
\* condition on the row).
FieldMatches(value, text) ==
  ~Truthy(value) \/ LikeMatch(<< "%" >> \o value[1] \o << "%" >>, text)

\* A joined branch row satisfies every present field of the filter.
RowMatches(filter_input, row) ==
  \/ filter_input = None
  \/ /\ FieldMatches(filter_input[1].ifsc, row.ifsc)
     /\ FieldMatches(filter_input[1].city, row.city)
     /\ FieldMatches(filter_input[1].district, row.district)
     /\ FieldMatches(filter_input[1].state, row.state)
     /\ FieldMatches(filter_input[1].bank_name, row.bank_name)
     /\ FieldMatches(filter_input[1].branch_name, row.branch)

\* The ordered result set a request pages through, as entities: banks by
\* name, the matching branches (each with its bank) by IFSC.
ResultSet(request) ==
  IF request.op = "banks"
  THEN LET rows == OrderByName(banks)
       IN  [i \in 1..Len(rows) |-> BankType(rows[i])]
  ELSE LET rows == OrderByIfsc({ r \in JoinedBranches(banks, branches) :
                                   RowMatches(request.filter, r) })
       IN  [i \in 1..Len(rows) |-> BranchType(rows[i])]

\* The positions of the result set at or after offset.
PositionsFrom(request, offset) ==
  { p \in 0..(Len(ResultSet(request)) - 1) : p >= offset }

\* The entities of a page, in order.
Nodes(response) == [k \in 1..Len(response.edges) |-> response.edges[k].node]

---------------------------------------------------------------------------
(* Properties                                                              *)

\* C1: for every first (positive, zero or negative), every after and every
\* filter, a page has at most min(first, MAX_PAGE_SIZE) edges, at most
\* MAX_PAGE_SIZE edges, and at most as many edges as there are matching rows
\* at or after its offset.
C1_PageSizeBound ==
  \A e \in Exchanges :
    LET n == Len(e.response.edges)
    IN  /\ n <= Min(e.request.first, settings.MAX_PAGE_SIZE)
        /\ n <= settings.MAX_PAGE_SIZE
        /\ n <= Cardinality(PositionsFrom(e.request, CursorOffset(e.request.after)))

\* C2: a request with first <= 0 returns the page of the same request with
\* first = DEFAULT_PAGE_SIZE, and no page has empty edges together with
\* has_next_page = true.
C2_NonPositiveFirstIsDefault ==
  \A e \in Exchanges :
    /\ e.request.first <= 0 =>
         e.response = Resolve([e.request EXCEPT !.first = DEFAULT_PAGE_SIZE])
    /\ ~(Len(e.response.edges) = 0 /\ e.response.page_info.has_next_page)

\* C3: has_next_page is true exactly when more than limit = min(first,
\* MAX_PAGE_SIZE) matching rows lie at positions >= offset, that is, exactly
\* when a matching row lies at position offset + limit; and that lookahead row
\* is not among the edges.
C3_NextPageFlag ==
  \A e \in Exchanges :
    LET limit  == Min(e.request.first, settings.MAX_PAGE_SIZE)
        offset == CursorOffset(e.request.after)
        rs     == ResultSet(e.request)
        next   == e.response.page_info.has_next_page
        ahead  == offset + limit
    IN  /\ next <=> Cardinality(PositionsFrom(e.request, offset)) > limit
        /\ next <=> ahead \in 0..(Len(rs) - 1)
        /\ next /\ ahead \in 0..(Len(rs) - 1) =>
             \A k \in 1..Len(e.response.edges) : e.response.edges[k].node # rs[ahead + 1]

\* A session that starts at the beginning: the first request has no cursor
\* and a page size P with 1 <= P <= MAX_PAGE_SIZE.
SessionFromStart ==
  /\ Len(history) >= 1
  /\ history[1].request.after = None
  /\ history[1].request.first \in 1..settings.MAX_PAGE_SIZE

\* C4 as stated: with N matching rows and page size P, the first page has
\* has_next_page = (N > P), and the page requested with after = its
\* end_cursor holds exactly the rows at positions P .. min(2P, N) - 1, with
\* has_previous_page = true and has_next_page = (N > 2P), for every N.
C4_SecondPageAsStated ==
  SessionFromStart =>
    LET P  == history[1].request.first
        rs == ResultSet(history[1].request)
        N  == Len(rs)
    IN  /\ history[1].response.page_info.has_next_page = (N > P)
        /\ Len(history) >= 2 =>
             /\ Nodes(history[2].response) = SubSeq(rs, P + 1, Min(2 * P, N))
             /\ history[2].response.page_info.has_previous_page
             /\ history[2].response.page_info.has_next_page = (N > 2 * P)

\* C4, amended: the same for N >= 1; with N = 0 the first page has no
\* end_cursor, and the second request is the first one again, which returns
\* the same empty page with has_previous_page = false.
C4_SecondPage ==
  SessionFromStart =>
    LET P  == history[1].request.first
        rs == ResultSet(history[1].request)
        N  == Len(rs)
    IN  /\ history[1].response.page_info.has_next_page = (N > P)
        /\ Len(history) >= 2 /\ N >= 1 =>
             /\ Nodes(history[2].response) = SubSeq(rs, P + 1, Min(2 * P, N))
             /\ history[2].response.page_info.has_previous_page
             /\ history[2].response.page_info.has_next_page = (N > 2 * P)
        /\ Len(history) >= 2 /\ N = 0 =>
             /\ history[2].request.after = None
             /\ history[2].response = history[1].response
             /\ ~history[2].response.page_info.has_previous_page

\* A second page that is full and has a page after it (N > 2P).
C4_Witness ==
  /\ SessionFromStart
  /\ Len(history) = 2
  /\ Len(history[2].response.edges) = history[1].request.first
  /\ history[2].response.page_info.has_next_page

\* C5: has_previous_page = (offset > 0), offset being 0 when after is absent,
\* empty or undecodable and the decoded value + 1 otherwise; so a page asked
\* for after the cursor of the very first row (which decodes to 0) has
\* has_previous_page = true.
C5_PreviousPageFlag ==
  \A e \in Exchanges :
    LET after   == e.request.after
        decoded == IF Truthy(after) THEN DecodeCursor(after[1])
                   ELSE [ok |-> FALSE, value |-> 0]
        offset  == IF decoded.ok THEN decoded.value + 1 ELSE 0
    IN  /\ e.response.page_info.has_previous_page = (offset > 0)
        /\ decoded.ok /\ decoded.value = 0 => e.response.page_info.has_previous_page

\* A page asked for after the cursor of position 0.
C5_Witness ==
  \E e \in Exchanges :
    /\ e.request.after = Some(EncodeCursor(0))
    /\ e.response.page_info.has_previous_page

\* C6: decoding the cursor minted for n >= 0 gives back n.
C6_CursorRoundTrip ==
  codec.decoded # None => codec.decoded[1] = [ok |-> TRUE, value |-> codec.n]

\* A three-digit position has gone through the codec.
C6_Witness == codec.decoded # None /\ codec.n >= 100

\* Canonical base64: groups of four alphabet characters, "=" only as the last
\* one or two characters.
WellFormedBase64(t) ==
  /\ Len(t) > 0
  /\ Len(t) % 4 = 0
  /\ \A i \in 1..Len(t) :
       \/ IsB64Char(t[i])
       \/ /\ t[i] = "="
          /\ i >= Len(t) - 1
          /\ t[Len(t)] = "="

\* The bytes spell a decimal integer: an optional sign, then digits.
DecimalInteger(bs) ==
  LET ds == IF Len(bs) > 0 /\ Head(bs) \in {43, 45} THEN Tail(bs) ELSE bs
  IN  Len(ds) > 0 /\ \A i \in 1..Len(ds) : IsDigit(ds[i])

\* A valid cursor: base64 of a decimal integer.
ValidCursor(t) ==
  /\ WellFormedBase64(t)
  /\ B64Decode(t).ok
  /\ DecimalInteger(B64Decode(t).bytes)

\* C7: an after string that is not a valid cursor (not base64, or not the
\* encoding of a decimal integer) gives the page the same request gives
\* without after.
C7_InvalidCursorIsNoCursor ==
  \A e \in Exchanges :
    e.request.after # None /\ ~ValidCursor(e.request.after[1]) =>
      e.response = Resolve([e.request EXCEPT !.after = None])

\* C8: whatever after is, every cursor of the page encodes a non-negative
\* integer, the position of its edge's row in the ordered result set.
C8_CursorsArePositions ==
  \A e \in Exchanges :
    LET rs == ResultSet(e.request)
    IN  \A k \in 1..Len(e.response.edges) :
          LET d == DecodeCursor(e.response.edges[k].cursor)
          IN  /\ d.ok
              /\ d.value >= 0
              /\ d.value < Len(rs)
              /\ rs[d.value + 1] = e.response.edges[k].node

\* C9: total_count is the size of the whole result set of the filter (the
\* matching rows the pages run through), whatever first and after are.
C9_TotalCountIsResultSetSize ==
  \A e \in Exchanges : e.response.total_count = Len(ResultSet(e.request))

\* C10: for list_branches with any filter, absent and all-empty included,
\* total_count is the number of rows the data query yields without its limit
\* and offset.
C10_CountQueryMatchesDataQuery ==
  \A e \in Exchanges :
    e.request.op = "branches" =>
      e.response.total_count = Len(BranchQuery(e.request.filter, -1, 0).rows)

\* The filter with only one of its fields kept.
OnlyField(f, field) ==
  [k \in DOMAIN f |-> IF k = field THEN f[k] ELSE None]

\* The fields of a filter that put a condition on the rows.
PresentFields(f) == { k \in DOMAIN f : Truthy(f[k]) }

\* The whole result of search_branches for a filter, as a set of rows.
Matching(f) ==
  LET rows == search_branches(f, -1, 0).rows
  IN  { rows[i] : i \in 1..Len(rows) }

\* The request filters by both city and state.
CityAndState(request) ==
  /\ request.op = "branches"
  /\ request.filter # None
  /\ PresentFields(request.filter[1]) = {"city", "state"}

\* The results of a filter's present fields, each taken alone.
MatchingAlone(f) == [k \in PresentFields(f) |-> Matching(OnlyField(f, k))]

\* C11 as stated: the rows returned satisfy every present field's predicate,
\* and the result of filtering by city and state is a strict subset of the
\* result by city alone and of the result by state alone, on every dataset.
C11_FilterConjunctionAsStated ==
  \A e \in Exchanges :
    e.request.op = "branches" /\ HasFilter(e.request.filter) =>
      \A all \in {Matching(e.request.filter[1])},
         alone \in {MatchingAlone(e.request.filter[1])} :
        /\ \A k \in DOMAIN alone : all \subseteq alone[k]
        /\ CityAndState(e.request) =>
             /\ all # alone["city"]
             /\ all # alone["state"]

\* C11, amended: the result of a filter is exactly the rows that are in the
\* result of each of its present fields taken alone, and every edge of a page
\* is one of them; the result by city and state is a subset of the result by
\* either alone, proper exactly when some row matches that field and not the
\* other.
C11_FilterConjunction ==
  \A e \in Exchanges :
    e.request.op = "branches" /\ HasFilter(e.request.filter) =>
      \A all \in {Matching(e.request.filter[1])},
         alone \in {MatchingAlone(e.request.filter[1])} :
        /\ all = { r \in JoinedBranches(banks, branches) :
                     \A k \in DOMAIN alone : r \in alone[k] }
        /\ \A i \in 1..Len(e.response.edges) :
             \E r \in all : e.response.edges[i].node = BranchType(r)
        /\ CityAndState(e.request) =>
             /\ all \subseteq alone["city"]
             /\ all \subseteq alone["state"]
             /\ all # alone["city"] <=> alone["city"] \ alone["state"] # {}
             /\ all # alone["state"] <=> alone["state"] \ alone["city"] # {}

\* A page of branches filtered by city and state, on a dataset where each
\* field alone matches a row the other does not.
C11_Witness ==
  \E e \in Exchanges :
    /\ CityAndState(e.request)
    /\ Len(e.response.edges) > 0
    /\ LET f == e.request.filter[1]
       IN  /\ Matching(OnlyField(f, "city")) \ Matching(f) # {}
           /\ Matching(OnlyField(f, "state")) \ Matching(f) # {}

RECURSIVE ContainsLiteral(_, _)
\* text contains value as a contiguous run of characters, each compared as
\* itself (letters without regard to case, as the comparison of the source).
ContainsLiteral(text, value) ==
  \/ /\ Len(value) <= Len(text)
     /\ \A j \in 1..Len(value) : Fold(text[j]) = Fold(value[j])
  \/ /\ Len(text) > 0
     /\ ContainsLiteral(Tail(text), value)

\* The column of the joined row a filter field is compared with.
FieldOfRow(row, field) ==
  CASE field = "ifsc"        -> row.ifsc
    [] field = "city"        -> row.city
    [] field = "district"    -> row.district
    [] field = "state"       -> row.state
    [] field = "bank_name"   -> row.bank_name
    [] field = "branch_name" -> row.branch

\* C12: a branch row is in the result of a filter exactly when, for each
\* present field, the stored value contains the filter value as a contiguous
\* substring, every character of the value standing for itself.
C12_LiteralSubstring ==
  \A e \in Exchanges :
    e.request.op = "branches" /\ HasFilter(e.request.filter) =>
      LET f == e.request.filter[1]
      IN  Matching(f) =
            { r \in JoinedBranches(banks, branches) :
                \A k \in PresentFields(f) :
                  ContainsLiteral(FieldOfRow(r, k), f[k][1]) }


\* The banks of the end-to-end scenario: (1, Alpha), (2, Beta), (3, Gamma).
AlphaBetaGamma ==
  { [id |-> 1, name |-> << "A", "l", "p", "h", "a" >>],
    [id |-> 2, name |-> << "B", "e", "t", "a" >>],
    [id |-> 3, name |-> << "G", "a", "m", "m", "a" >>] }

\* The names of the banks of a page, in order.
BankNames(response) == [k \in 1..Len(response.edges) |-> response.edges[k].node.name]

\* C16: over the banks Alpha, Beta, Gamma, list_banks(first=2) without after
\* returns Alpha, Beta in that order with has_next_page = true and
\* total_count = 3; list_banks(first=2, after = Beta's cursor) returns Gamma
\* alone with has_next_page = false and has_previous_page = true.
C16_AlphaBetaGamma ==
  banks = AlphaBetaGamma =>
    \A e \in Exchanges :
      e.request.op = "banks" /\ e.request.first = 2 =>
        /\ e.request.after = None =>
             /\ BankNames(e.response) =
                  << << "A", "l", "p", "h", "a" >>, << "B", "e", "t", "a" >> >>
             /\ e.response.edges[1].node.id = 1
             /\ e.response.edges[2].node.id = 2
             /\ e.response.page_info.has_next_page
             /\ e.response.total_count = 3
        /\ e.request.after = Some(Resolve([e.request EXCEPT !.after = None]).edges[2].cursor) =>
             /\ BankNames(e.response) = << << "G", "a", "m", "m", "a" >> >>
             /\ e.response.edges[1].node.id = 3
             /\ ~e.response.page_info.has_next_page
             /\ e.response.page_info.has_previous_page

\* The two requests of the scenario, the second one with the end_cursor of
\* the first page.
C16_Witness ==
  /\ banks = AlphaBetaGamma
  /\ Len(history) = 2
  /\ history[1].request = [op |-> "banks", first |-> 2, after |-> None, filter |-> None]
  /\ history[2].request.after = Some(history[1].response.edges[2].cursor)
  /\ Len(history[2].response.edges) = 1

\* C17: when no matching row lies at or after the page's offset, the page
\* has empty edges, has_next_page = false, has_previous_page = (offset > 0),
\* no start_cursor and no end_cursor, and total_count is the number of
\* matching rows (0 when none matches).
C17_EmptyPage ==
  \A e \in Exchanges :
    LET offset == CursorOffset(e.request.after)
    IN  PositionsFrom(e.request, offset) = {} =>
          /\ e.response.edges = << >>
          /\ ~e.response.page_info.has_next_page
          /\ e.response.page_info.has_previous_page = (offset > 0)
          /\ e.response.page_info.start_cursor = None
          /\ e.response.page_info.end_cursor = None
          /\ e.response.total_count = Len(ResultSet(e.request))

\* C19: the edge at local index i carries the cursor encode(offset + i), so
\* the cursors of consecutive edges decode to consecutive integers;
\* start_cursor and end_cursor are the cursors of the first and the last
\* edge, and are absent exactly when there is no edge.
C19_EdgeCursors ==
  \A e \in Exchanges :
    LET offset == CursorOffset(e.request.after)
        edges  == e.response.edges
        info   == e.response.page_info
    IN  /\ \A k \in 1..Len(edges) :
             /\ edges[k].cursor = EncodeCursor(offset + (k - 1))
             /\ DecodeCursor(edges[k].cursor) = [ok |-> TRUE, value |-> offset + (k - 1)]
        /\ \A k \in 1..(Len(edges) - 1) :
             DecodeCursor(edges[k + 1].cursor).value = DecodeCursor(edges[k].cursor).value + 1
        /\ Len(edges) > 0 =>
             /\ info.start_cursor = Some(edges[1].cursor)
             /\ info.end_cursor = Some(edges[Len(edges)].cursor)
        /\ info.start_cursor = None <=> Len(edges) = 0
        /\ info.end_cursor = None <=> Len(edges) = 0

\* A page of several edges that does not start at position 0.
C19_Witness ==
  \E e \in Exchanges :
    /\ Len(e.response.edges) >= 2
    /\ CursorOffset(e.request.after) > 0
    /\ e.response.page_info.start_cursor # e.response.page_info.end_cursor

\* The page get_all_branches builds when its rows and count come from
\* search_branches with the given filter record.
FilteredPathPage(first, after, f) ==
  LET offset      == CursorOffset(after)
      limit       == PageLimit(first)
      got         == search_branches(f, limit + 1, offset)
      branch_rows == KeptRows(got.rows, limit)
      edges       == [i \in 1..Len(branch_rows) |->
                        [node |-> BranchType(branch_rows[i]),
                         cursor |-> EdgeCursor(offset, i - 1)]]
  IN  Connection(edges, HasNextPage(got.rows, limit), offset, got.total_count)

\* C20: for a filter that is absent or has no field set, the page returned
\* (by get_all_branches + count_branches) equals the page the filtered path,
\* search_branches with no condition, gives for the same first and after.
C20_UnfilteredIsTrivialFilter ==
  \A e \in Exchanges :
    e.request.op = "branches" /\ ~HasFilter(e.request.filter) =>
      e.response =
        FilteredPathPage(e.request.first, e.request.after,
                         IF e.request.filter = None THEN EmptyFilter
                         ELSE e.request.filter[1])

---------------------------------------------------------------------------
(* Properties of the requests in flight                                    *)

\* The sqlite3 calls of a request that raised.
FailedCalls(r) == { i \in 1..Len(r.log) : ~r.log[i].ok }

\* The scalar fields of a branch entity are those of the stored row.
BuiltFromRow(entity, row) ==
  /\ entity.ifsc = row.ifsc
  /\ entity.branch = row.branch
  /\ entity.address = row.address
  /\ entity.city = row.city
  /\ entity.district = row.district
  /\ entity.state = row.state

\* C13 as stated: a point lookup returns None and raises nothing when no row
\* of its table has the key, and the entity built from the row when one has.
C13_PointLookupsAsStated ==
  \A s \in Slots :
    LET r   == requests[s]
        rq  == r.request
        hit == CASE rq.op = "bank"         -> { b \in banks : b.id = rq.id }
                 [] rq.op = "bank_by_name" -> { b \in banks : b.name = rq.key }
                 [] rq.op = "branch"       -> { b \in branches : b.ifsc = rq.key }
                 [] OTHER                  -> {}
    IN  rq.op \in {"bank", "bank_by_name", "branch"} =>
          /\ r.pc = "raised" => FailedCalls(r) # {}
          /\ r.pc = "returned" /\ hit = {} => r.outcome.value = None
          /\ r.pc = "returned" /\ hit # {} =>
               /\ r.outcome.value # None
               /\ \E row \in hit :
                    IF rq.op = "branch" THEN BuiltFromRow(r.outcome.value[1], row)
                    ELSE r.outcome.value[1] = [id |-> row.id, name |-> row.name]

\* C13, amended: the same, the row of get_branch_by_ifsc being the branch
\* joined to its bank: a branch whose bank_id names no bank is answered with
\* None like a key no branch has.
C13_PointLookups ==
  \A s \in Slots :
    LET r  == requests[s]
        rq == r.request
    IN  rq.op \in {"bank", "bank_by_name", "branch"} =>
          /\ r.pc = "raised" => FailedCalls(r) # {}
          /\ r.pc = "returned" /\ rq.op \in {"bank", "bank_by_name"} =>
               LET hit == IF rq.op = "bank" THEN { b \in banks : b.id = rq.id }
                          ELSE { b \in banks : b.name = rq.key }
               IN  /\ hit = {} => r.outcome.value = None
                   /\ hit # {} =>
                        /\ r.outcome.value # None
                        /\ \E row \in hit :
                             r.outcome.value[1] = [id |-> row.id, name |-> row.name]
          /\ r.pc = "returned" /\ rq.op = "branch" =>
               LET hit == { b \in branches :
                              /\ b.ifsc = rq.key
                              /\ b.bank_id # None
                              /\ \E ba \in banks : ba.id = b.bank_id[1] }
               IN  /\ hit = {} => r.outcome.value = None
                   /\ hit # {} =>
                        /\ r.outcome.value # None
                        /\ \E row \in hit :
                             /\ BuiltFromRow(r.outcome.value[1], row)
                             /\ r.outcome.value[1].bank \in
                                  { [id |-> ba.id, name |-> ba.name] :
                                      ba \in { x \in banks : x.id = row.bank_id[1] } }

\* One lookup has returned an entity and another, of a key without a row, None.
C13_Witness ==
  \E s, t \in Slots :
    /\ requests[s].pc = "returned"
    /\ requests[s].request.op = "branch"
    /\ requests[s].outcome.value # None
    /\ requests[t].pc = "returned"
    /\ requests[t].request.op = "branch"
    /\ requests[t].outcome.value = None

\* C14: when a storage call of an operation fails, the operation raises that
\* failure, returns nothing, and makes no further storage call: the failed
\* sqlite3 call is the only one that failed and is followed only by the
\* rollback and close of its own connection. An operation raises only then.
C14_StorageFailurePropagates ==
  \A s \in Slots :
    LET r == requests[s]
    IN  /\ r.pc = "raised" => FailedCalls(r) # {}
        /\ \A i \in FailedCalls(r) :
             /\ FailedCalls(r) = {i}
             /\ \A j \in (i + 1)..Len(r.log) :
                  /\ r.log[j].call = r.log[i].call
                  /\ r.log[j].api \in {"rollback", "close"}
             /\ r.pc = "raised"
             /\ r.outcome.status = "raised"
             /\ r.outcome.error = Some(StorageError(r.log[i].call, r.log[i].api))
             /\ r.outcome.value = None

\* The second storage call of a list operation failed after the first one
\* had returned its rows.
C14_Witness ==
  \E s \in Slots :
    /\ requests[s].pc = "raised"
    /\ requests[s].request.op \in {"banks", "branches"}
    /\ Len(requests[s].fetched) = 1
    /\ requests[s].outcome.error = Some(StorageError(2, "execute"))

\* C15: a connection is open only while the storage call that opened it is
\* in progress: once the operation has returned or raised, whatever the exit
\* path, none of its connections is open.
C15_ConnectionsClosed ==
  \A c \in connections :
    /\ requests[c.owner].pc = "query"
    /\ requests[c.owner].call = c.call

\* What the operation returns when it is the only one running.
AloneResult(request) ==
  CASE request.op \in {"banks", "branches"} -> Some(Resolve(request))
    [] request.op = "bank" ->
         LET row == BankRepo_get_bank_by_id(request.id)
         IN  IF row # None THEN Some(BankType(row[1])) ELSE None
    [] request.op = "bank_by_name" -> BankRepo_get_bank_by_name(request.key)
    [] request.op = "branch" ->
         LET row == BranchRepo_get_branch_by_ifsc(request.key)
         IN  IF row # None THEN Some(BranchType(row[1])) ELSE None

\* C18: whatever the interleaving of the storage calls of the requests in
\* flight, a request that returns returns what it returns when run alone.
C18_NoInterference ==
  \A s \in Slots :
    requests[s].pc = "returned" =>
      requests[s].outcome.value = AloneResult(requests[s].request)

\* Two list requests with different offsets were in flight together and both
\* returned a page with an edge.
C18_Witness ==
  /\ requests[1].pc = "returned"
  /\ requests[2].pc = "returned"
  /\ requests[1].request.op = "banks"
  /\ requests[2].request.op = "branches"
  /\ requests[1].locals # requests[2].locals
  /\ Len(requests[1].outcome.value[1].edges) > 0
  /\ Len(requests[2].outcome.value[1].edges) > 0

\* The positions of the placeholders of a query text, in order.
Placeholders(text) ==
  LET IsPlaceholder(i) == text[i] = "?"
  IN  SelectSeq([i \in 1..Len(text) |-> i], IsPlaceholder)

\* The filter field a column of the query stands for.
FieldOfColumn(column) ==
  CASE column = "b.ifsc"     -> "ifsc"
    [] column = "b.city"     -> "city"
    [] column = "b.district" -> "district"
    [] column = "b.state"    -> "state"
    [] column = "ba.name"    -> "bank_name"
    [] column = "b.branch"   -> "branch_name"

\* The filter field of the k-th placeholder of a where clause: the column
\* of the condition "column LIKE ?" the placeholder stands in.
PlaceholderField(text, k) == FieldOfColumn(text[Placeholders(text)[k] - 2])

\* C21: for every combination of absent, empty and set filter fields,
\* search_branches builds a predicate with exactly one placeholder per
\* present (non-empty) field, the k-th parameter is the pattern %value% of
\* the field of the k-th placeholder, the count query receives exactly that
\* parameter list, and the data query has the same predicate and receives
\* the same list followed by limit (bound to LIMIT ?) and then offset (bound
\* to OFFSET ?) and nothing else.
C21_ParameterOrder ==
  compiled.queries # None =>
    LET f  == compiled.f
        cq == compiled.queries[1].count_query
        dq == compiled.queries[1].data_query
        n  == Cardinality(PresentFields(f))
    IN  /\ Len(Placeholders(cq.text)) = n
        /\ { PlaceholderField(cq.text, k) : k \in 1..n } = PresentFields(f)
        /\ Len(cq.params) = n
        /\ \A k \in 1..n :
             cq.params[k] = << "%" >> \o f[PlaceholderField(cq.text, k)][1] \o << "%" >>
        /\ SubSeq(dq.text, 1, Len(cq.text)) = cq.text
        /\ Len(Placeholders(dq.text)) = n + 2
        /\ dq.text[Placeholders(dq.text)[n + 1] - 1] = "LIMIT"
        /\ dq.text[Placeholders(dq.text)[n + 2] - 1] = "OFFSET"
        /\ Len(dq.params) = n + 2
        /\ \A k \in 1..n : dq.params[k] = cq.params[k]
        /\ dq.params[n + 1] = compiled.limit
        /\ dq.params[n + 2] = compiled.offset

\* search_branches has built its queries for a filter with three fields
\* set, one field empty and the others absent, with limit and offset unequal.
C21_Witness ==
  /\ compiled.queries # None
  /\ PresentFields(compiled.f) = {"city", "bank_name", "branch_name"}
  /\ compiled.f.ifsc = Some(<< >>)
  /\ compiled.f.state = None
  /\ compiled.limit # compiled.offset
  /\ Len(compiled.queries[1].data_query.params) = 5

\* The positions in a request's log at which the api was called.
CallsOf(log, api) == { i \in 1..Len(log) : log[i].api = api }

\* C22: a list request (banks, or branches with or without a filter)
\* acquires one connection, once, and runs both its row query and its count
\* query on that connection before the connection is closed.
C22_OneConnectionPerListRequest ==
  \A s \in Slots :
    requests[s].request.op \in {"banks", "branches"} =>
      LET log == requests[s].log
      IN  /\ Cardinality(CallsOf(log, "connect")) <= 1
          /\ \A i, j \in CallsOf(log, "execute") :
               /\ log[i].call = log[j].call
               /\ ~\E c \in CallsOf(log, "close") : i < c /\ c < j

\* The entities of all pages received so far, in the order received.
RECURSIVE AllNodes(_)
AllNodes(h) ==
  IF Len(h) = 0 THEN << >>
  ELSE AllNodes(SubSeq(h, 1, Len(h) - 1)) \o Nodes(h[Len(h)].response)

\* ceil(n / p) requests, and one request for an empty result set.
RequestsNeeded(n, p) == IF n = 0 THEN 1 ELSE (n + p - 1) \div p

\* C23: on an unchanged dataset whose result set (banks by name, the
\* matching branches by IFSC) has N rows, a client that starts without a
\* cursor with page size P, 1 <= P <= MAX_PAGE_SIZE, and follows end_cursor
\* while has_next_page is true, is told to go on exactly until it has made
\* ceil(N / P) requests (one when N = 0); the pages received so far are
\* always the first rows of the result set in order, and at the end they
\* are the whole result set, every row once.
C23_FullTraversal ==
  Len(history) > 0 =>
    LET request == history[1].request
        P       == request.first
        rs      == ResultSet(request)
        N       == Len(rs)
        last    == history[Len(history)].response
    IN  /\ Len(history) <= RequestsNeeded(N, P)
        /\ last.page_info.has_next_page <=> Len(history) < RequestsNeeded(N, P)
        /\ AllNodes(history) = SubSeq(rs, 1, Min(N, Len(history) * P))
        /\ ~last.page_info.has_next_page => AllNodes(history) = rs

\* A list of branches read to its end in three requests, the last page
\* shorter than the page size.
C23_Witness ==
  /\ Len(history) = 3
  /\ history[1].request.op = "branches"
  /\ history[1].request.after = None
  /\ ~history[3].response.page_info.has_next_page
  /\ Len(history[3].response.edges) < history[1].request.first
  /\ Len(AllNodes(history)) = 5
=============================================================================
